---- MODULE Spec2Model ----
(***************************************************************************)
(* A model of the interval and time-set algebra of src/src/tracking.py and *)
(* of the activities loader of src/src/activities.py.                      *)
(*                                                                         *)
(* A Timestamp is modelled by its UTC-normalised moment, an integer:       *)
(* Timestamp.__eq__ and __lt__ compare the UTC moment only.  The bounds of *)
(* the intervals are drawn from the even moments, so that the moments used *)
(* to probe containment (all of Moments) fall on every bound and strictly  *)
(* between, before and after the bounds.                                   *)
(*                                                                         *)
(* A TimeInterval is the record [kind, start, end] of the frozen           *)
(* dataclass.  A call that raises ValueError yields the value ValueError   *)
(* (for a TimeSet, the value TimeSetError), and every caller passes it on, *)
(* as an uncaught exception does.                                          *)
(***************************************************************************)
EXTENDS Integers, Sequences, FiniteSets, TLC

VARIABLES op, args, res

vars == <<op, args, res>>

\* The number of distinct timestamps that bound the intervals.
MaxT == 3

\* Python's None, as a bound and as an inclusion flag.
None == -1
\* Python's True and False as inclusion flags (bool | None).
PyTrue == 1
PyFalse == 0

Timestamps == {2 * k : k \in 1..MaxT}
Moments == 1..(2 * MaxT + 1)
Flags == {PyTrue, PyFalse, None}

Bool(b) == IF b THEN PyTrue ELSE PyFalse
\* Python truthiness of a bool | None value.
Truthy(f) == f = PyTrue
\* Python's "not x" on a bool | None value.
PyNot(f) == IF f = PyTrue THEN PyFalse ELSE PyTrue

Kinds ==
    {"EMPTY", "POINT", "OPEN", "CLOSED", "CLOSED_OPEN", "OPEN_CLOSED",
     "RIGHT_OPEN", "RIGHT_CLOSED", "LEFT_OPEN", "LEFT_CLOSED", "TIMELINE"}

START_SPECIFIED_KINDS ==
    {"POINT", "OPEN", "CLOSED", "CLOSED_OPEN", "OPEN_CLOSED", "RIGHT_OPEN", "RIGHT_CLOSED"}

END_SPECIFIED_KINDS ==
    {"POINT", "OPEN", "CLOSED", "CLOSED_OPEN", "OPEN_CLOSED", "LEFT_OPEN", "LEFT_CLOSED"}

START_INCLUDED_KINDS == {"POINT", "CLOSED", "CLOSED_OPEN", "RIGHT_CLOSED"}

END_INCLUDED_KINDS == {"POINT", "CLOSED", "OPEN_CLOSED", "LEFT_CLOSED"}

\* The outcome of a TimeInterval call that raises ValueError.
ValueError == [kind |-> "ValueError", start |-> None, end |-> None]

Raises(i) == i.kind = "ValueError"

TimeInterval_is_valid(kind, start, end) ==
    CASE kind = "EMPTY" -> start = None /\ end = None
      [] kind = "POINT" -> start # None /\ end # None /\ start = end
      [] kind \in {"OPEN", "CLOSED", "CLOSED_OPEN", "OPEN_CLOSED"} ->
            start # None /\ end # None /\ start < end
      [] kind \in {"RIGHT_OPEN", "RIGHT_CLOSED"} -> start # None /\ end = None
      [] kind \in {"LEFT_OPEN", "LEFT_CLOSED"} -> start = None /\ end # None
      [] kind = "TIMELINE" -> start = None /\ end = None
      [] OTHER -> FALSE

\* A slip: __post_init__ forgotten, whatever is handed in is stored.
TimeInterval_unchecked(kind, start, end) ==
    [kind |-> kind, start |-> start, end |-> end]

\* The dataclass constructor followed by __post_init__.
TimeInterval(kind, start, end) ==
    IF TimeInterval_is_valid(kind, start, end)
    THEN [kind |-> kind, start |-> start, end |-> end]
    ELSE ValueError

empty == TimeInterval("EMPTY", None, None)

point(moment) == TimeInterval("POINT", moment, moment)

open(start, end) ==
    IF start >= end THEN ValueError ELSE TimeInterval("OPEN", start, end)

closed(start, end) ==
    IF start >= end THEN ValueError ELSE TimeInterval("CLOSED", start, end)

closedopen(start, end) ==
    IF start >= end THEN ValueError ELSE TimeInterval("CLOSED_OPEN", start, end)

openclosed(start, end) ==
    IF start >= end THEN ValueError ELSE TimeInterval("OPEN_CLOSED", start, end)

rightclosed(start) == TimeInterval("RIGHT_CLOSED", start, None)

rightopen(start) == TimeInterval("RIGHT_OPEN", start, None)

right_ray(start, start_included) ==
    IF Truthy(start_included)
    THEN TimeInterval("RIGHT_CLOSED", start, None)
    ELSE TimeInterval("RIGHT_OPEN", start, None)

leftclosed(end) == TimeInterval("LEFT_CLOSED", None, end)

leftopen(end) == TimeInterval("LEFT_OPEN", None, end)

left_ray(end, end_included) ==
    IF Truthy(end_included)
    THEN TimeInterval("LEFT_CLOSED", None, end)
    ELSE TimeInterval("LEFT_OPEN", None, end)

timeline == TimeInterval("TIMELINE", None, None)

\* The names of the per-shape constructors.
ShapeConstructors ==
    {"empty", "point", "open", "closed", "closedopen", "openclosed",
     "rightclosed", "rightopen", "right_ray", "leftclosed", "leftopen",
     "left_ray", "timeline"}

\* The call of the per-shape constructor of the given name: start is the
\* moment of a point, included the flag handed to right_ray and left_ray.
per_shape_constructor(name, start, end, included) ==
    CASE name = "empty" -> empty
      [] name = "point" -> point(start)
      [] name = "open" -> open(start, end)
      [] name = "closed" -> closed(start, end)
      [] name = "closedopen" -> closedopen(start, end)
      [] name = "openclosed" -> openclosed(start, end)
      [] name = "rightclosed" -> rightclosed(start)
      [] name = "rightopen" -> rightopen(start)
      [] name = "right_ray" -> right_ray(start, included)
      [] name = "leftclosed" -> leftclosed(end)
      [] name = "leftopen" -> leftopen(end)
      [] name = "left_ray" -> left_ray(end, included)
      [] name = "timeline" -> timeline

from_boundaries(start, end, start_included, end_included) ==
    IF start # None /\ end # None THEN
        IF start_included = None \/ end_included = None THEN ValueError
        ELSE IF Truthy(start_included) /\ Truthy(end_included) THEN
            IF start > end THEN ValueError
            ELSE IF start = end THEN point(start)
            ELSE closed(start, end)
        ELSE IF Truthy(start_included) /\ ~Truthy(end_included) THEN
            IF start >= end THEN ValueError ELSE closedopen(start, end)
        ELSE IF ~Truthy(start_included) /\ Truthy(end_included) THEN
            IF start >= end THEN ValueError ELSE openclosed(start, end)
        ELSE
            IF start >= end THEN ValueError ELSE open(start, end)
    ELSE IF start # None /\ end = None THEN
        IF end_included # None THEN ValueError
        ELSE IF Truthy(start_included) THEN rightclosed(start)
        ELSE rightopen(start)
    ELSE IF start = None /\ end # None THEN
        IF start_included # None THEN ValueError
        ELSE IF Truthy(end_included) THEN leftclosed(end)
        ELSE leftopen(end)
    ELSE
        IF start_included # None \/ end_included # None THEN ValueError
        ELSE timeline

is_empty(i) == i.kind = "EMPTY"

is_nonempty(i) == i.kind # "EMPTY"

is_timeline(i) == i.kind = "TIMELINE"

is_start_specified(i) == i.kind \in START_SPECIFIED_KINDS

is_end_specified(i) == i.kind \in END_SPECIFIED_KINDS

is_start_included(i) ==
    IF i.kind \in START_SPECIFIED_KINDS
    THEN Bool(i.kind \in START_INCLUDED_KINDS)
    ELSE None

\* A slip: the table of the start consulted for the end.
is_end_included_start_kinds(i) ==
    IF i.kind \in END_SPECIFIED_KINDS
    THEN Bool(i.kind \in START_INCLUDED_KINDS)
    ELSE None

is_end_included(i) ==
    IF i.kind \in END_SPECIFIED_KINDS
    THEN Bool(i.kind \in END_INCLUDED_KINDS)
    ELSE None

\* Every valid TimeInterval whose bounds are among Timestamps.
Intervals ==
    {i \in [kind : Kinds, start : Timestamps \cup {None}, end : Timestamps \cup {None}] :
        TimeInterval_is_valid(i.kind, i.start, i.end)}

Max(x, y) == IF x >= y THEN x ELSE y

Min(x, y) == IF x <= y THEN x ELSE y

\* A slip: min for max, the earlier start taken as the start of the intersection.
and_new_start_min(self, other) ==
    IF is_start_specified(self) /\ is_start_specified(other)
    THEN Min(self.start, other.start)
    ELSE IF ~is_start_specified(self) /\ ~is_start_specified(other)
    THEN None
    ELSE IF self.start # None THEN self.start ELSE other.start

\* __and__, the start of the intersection (both operands non-empty, neither
\* the timeline): the later start; "self.start or other.start" when only one
\* is specified.
and_new_start(self, other) ==
    IF is_start_specified(self) /\ is_start_specified(other)
    THEN Max(self.start, other.start)
    ELSE IF ~is_start_specified(self) /\ ~is_start_specified(other)
    THEN None
    ELSE IF self.start # None THEN self.start ELSE other.start

\* A slip in the tie rule: on equal starts the inclusion of self alone decides.
and_new_start_included_tie_self(self, other) ==
    IF is_start_specified(self) /\ is_start_specified(other) THEN
        IF self.start < other.start THEN is_start_included(other)
        ELSE is_start_included(self)
    ELSE IF ~is_start_specified(self) /\ ~is_start_specified(other)
    THEN None
    ELSE IF is_start_specified(self) THEN is_start_included(self)
    ELSE is_start_included(other)

and_new_start_included(self, other) ==
    IF is_start_specified(self) /\ is_start_specified(other) THEN
        IF self.start < other.start THEN is_start_included(other)
        ELSE IF self.start > other.start THEN is_start_included(self)
        ELSE Bool(Truthy(is_start_included(self)) /\ Truthy(is_start_included(other)))
    ELSE IF ~is_start_specified(self) /\ ~is_start_specified(other)
    THEN None
    ELSE IF is_start_specified(self) THEN is_start_included(self)
    ELSE is_start_included(other)

and_new_end(self, other) ==
    IF is_end_specified(self) /\ is_end_specified(other)
    THEN Min(self.end, other.end)
    ELSE IF ~is_end_specified(self) /\ ~is_end_specified(other)
    THEN None
    ELSE IF self.end # None THEN self.end ELSE other.end

\* A slip in the tie rule: on equal ends the inclusion of self alone decides.
and_new_end_included_tie_self(self, other) ==
    IF is_end_specified(self) /\ is_end_specified(other) THEN
        IF self.end > other.end THEN is_end_included(other)
        ELSE is_end_included(self)
    ELSE IF ~is_end_specified(self) /\ ~is_end_specified(other)
    THEN None
    ELSE IF is_end_specified(self) THEN is_end_included(self)
    ELSE is_end_included(other)

\* A slip: the inclusion of the later end taken for the earlier one.
and_new_end_included_of_later(self, other) ==
    IF is_end_specified(self) /\ is_end_specified(other) THEN
        IF self.end < other.end THEN is_end_included(other)
        ELSE IF self.end > other.end THEN is_end_included(self)
        ELSE Bool(Truthy(is_end_included(self)) /\ Truthy(is_end_included(other)))
    ELSE IF ~is_end_specified(self) /\ ~is_end_specified(other)
    THEN None
    ELSE IF is_end_specified(self) THEN is_end_included(self)
    ELSE is_end_included(other)

and_new_end_included(self, other) ==
    IF is_end_specified(self) /\ is_end_specified(other) THEN
        IF self.end < other.end THEN is_end_included(self)
        ELSE IF self.end > other.end THEN is_end_included(other)
        ELSE Bool(Truthy(is_end_included(self)) /\ Truthy(is_end_included(other)))
    ELSE IF ~is_end_specified(self) /\ ~is_end_specified(other)
    THEN None
    ELSE IF is_end_specified(self) THEN is_end_included(self)
    ELSE is_end_included(other)

\* TimeInterval.__and__: the intersection of two time intervals.
TimeInterval_and(self, other) ==
    IF Raises(self) \/ Raises(other) THEN ValueError
    ELSE IF is_empty(self) \/ is_empty(other) THEN empty
    ELSE IF is_timeline(self) THEN other
    ELSE IF is_timeline(other) THEN self
    ELSE
        LET new_start == and_new_start(self, other)
            new_start_included == and_new_start_included(self, other)
            new_end == and_new_end(self, other)
            new_end_included == and_new_end_included(self, other)
        IN  IF new_start # None /\ new_end # None
               /\ (IF new_start_included = PyTrue /\ new_end_included = PyTrue
                   THEN new_start > new_end
                   ELSE new_start >= new_end)
            THEN empty
            ELSE from_boundaries(new_start, new_end, new_start_included, new_end_included)

contains_timestamp(self, moment) ==
    IF is_empty(self) THEN FALSE
    ELSE IF is_timeline(self) THEN TRUE
    ELSE
        LET left_ok ==
                IF self.start # None
                THEN IF Truthy(is_start_included(self))
                     THEN moment >= self.start
                     ELSE moment > self.start
                ELSE TRUE
            right_ok ==
                IF self.end # None
                THEN IF Truthy(is_end_included(self))
                     THEN moment <= self.end
                     ELSE moment < self.end
                ELSE TRUE
        IN  left_ok /\ right_ok

\* A slip in the tie rule of the left boundary: "and" for "or".
contains_left_ok_tie_and(self, interval) ==
    IF interval.start # None THEN
        IF self.start = None THEN TRUE
        ELSE IF self.start < interval.start THEN TRUE
        ELSE IF self.start = interval.start
        THEN Truthy(is_start_included(self)) /\ ~Truthy(is_start_included(interval))
        ELSE FALSE
    ELSE self.start = None

\* contains_timeinterval, the check of the left boundary.
contains_left_ok(self, interval) ==
    IF interval.start # None THEN
        IF self.start = None THEN TRUE
        ELSE IF self.start < interval.start THEN TRUE
        ELSE IF self.start = interval.start
        THEN Truthy(is_start_included(self)) \/ ~Truthy(is_start_included(interval))
        ELSE FALSE
    ELSE self.start = None

\* A slip in the tie rule of the right boundary: "and" for "or".
contains_right_ok_tie_and(self, interval) ==
    IF interval.end # None THEN
        IF self.end = None THEN TRUE
        ELSE IF self.end > interval.end THEN TRUE
        ELSE IF self.end = interval.end
        THEN Truthy(is_end_included(self)) /\ ~Truthy(is_end_included(interval))
        ELSE FALSE
    ELSE self.end = None

\* contains_timeinterval, the check of the right boundary.
contains_right_ok(self, interval) ==
    IF interval.end # None THEN
        IF self.end = None THEN TRUE
        ELSE IF self.end > interval.end THEN TRUE
        ELSE IF self.end = interval.end
        THEN Truthy(is_end_included(self)) \/ ~Truthy(is_end_included(interval))
        ELSE FALSE
    ELSE self.end = None

contains_timeinterval(self, interval) ==
    IF is_empty(interval) THEN TRUE
    ELSE IF is_empty(self) THEN FALSE
    ELSE IF ~contains_left_ok(self, interval) THEN FALSE
    ELSE contains_right_ok(self, interval)

\* A slip in the tie rule: equal adjoining bounds never overlap.
is_left_of_tie_passes(self, other) ==
    IF is_empty(self) \/ is_empty(other) THEN TRUE
    ELSE IF self.end # None /\ other.start # None THEN self.end <= other.start
    ELSE FALSE

is_left_of(self, other) ==
    IF is_empty(self) \/ is_empty(other) THEN TRUE
    ELSE IF self.end # None /\ other.start # None THEN
        IF self.end < other.start THEN TRUE
        ELSE IF self.end = other.start
        THEN is_end_included(self) = PyFalse \/ is_start_included(other) = PyFalse
        ELSE FALSE
    ELSE FALSE

is_right_of(self, other) ==
    IF is_empty(self) \/ is_empty(other) THEN TRUE
    ELSE IF other.end # None /\ self.start # None THEN
        IF other.end < self.start THEN TRUE
        ELSE IF other.end = self.start
        THEN is_end_included(other) = PyFalse \/ is_start_included(self) = PyFalse
        ELSE FALSE
    ELSE FALSE

\* A slip: the tie rule forgotten, equal adjoining bounds count as a gap.
is_left_of_disconnectedly_no_tie(self, other) ==
    IF is_empty(self) \/ is_empty(other) THEN FALSE
    ELSE IF self.end # None /\ other.start # None THEN self.end <= other.start
    ELSE FALSE

is_left_of_disconnectedly(self, other) ==
    IF is_empty(self) \/ is_empty(other) THEN FALSE
    ELSE IF self.end # None /\ other.start # None THEN
        IF self.end < other.start THEN TRUE
        ELSE IF self.end = other.start
        THEN is_end_included(self) = PyFalse /\ is_start_included(other) = PyFalse
        ELSE FALSE
    ELSE FALSE

\* A slip: only the gap with self on the left is looked for.
touches_one_sided(self, other) ==
    IF is_empty(self) \/ is_empty(other) THEN FALSE
    ELSE IF is_left_of_disconnectedly(self, other) THEN FALSE
    ELSE TRUE

touches(self, other) ==
    IF is_empty(self) \/ is_empty(other) THEN FALSE
    ELSE IF is_left_of_disconnectedly(self, other) THEN FALSE
    ELSE IF is_left_of_disconnectedly(other, self) THEN FALSE
    ELSE TRUE

\* minimal_cover, the start of the cover: the start of the leftmost interval
\* under start_key = (start is not None, start), None being the smallest.
cover_start(nonempty_intervals) ==
    IF \E k \in DOMAIN nonempty_intervals : nonempty_intervals[k].start = None
    THEN None
    ELSE CHOOSE t \in {nonempty_intervals[k].start : k \in DOMAIN nonempty_intervals} :
            \A k \in DOMAIN nonempty_intervals : t <= nonempty_intervals[k].start

\* A slip: min for max, the earliest end taken as the end of the cover.
cover_end_min(nonempty_intervals) ==
    IF \A k \in DOMAIN nonempty_intervals : nonempty_intervals[k].end = None
    THEN None
    ELSE CHOOSE t \in {nonempty_intervals[k].end : k \in DOMAIN nonempty_intervals} \ {None} :
            \A k \in DOMAIN nonempty_intervals :
                nonempty_intervals[k].end # None => t <= nonempty_intervals[k].end

\* minimal_cover, the end of the cover: the end of the rightmost interval
\* under end_key = (end is None, end), None being the largest.
cover_end(nonempty_intervals) ==
    IF \E k \in DOMAIN nonempty_intervals : nonempty_intervals[k].end = None
    THEN None
    ELSE CHOOSE t \in {nonempty_intervals[k].end : k \in DOMAIN nonempty_intervals} :
            \A k \in DOMAIN nonempty_intervals : t >= nonempty_intervals[k].end

\* A slip: the start is included only if every interval starting there
\* includes it.
cover_start_included_all(nonempty_intervals, start) ==
    IF start = None THEN None
    ELSE Bool(\A k \in DOMAIN nonempty_intervals :
                nonempty_intervals[k].start = start
                    => Truthy(is_start_included(nonempty_intervals[k])))

cover_start_included(nonempty_intervals, start) ==
    IF start = None THEN None
    ELSE Bool(\E k \in DOMAIN nonempty_intervals :
                /\ nonempty_intervals[k].start = start
                /\ Truthy(is_start_included(nonempty_intervals[k])))

\* A slip: the end is included only if every interval ending there includes it.
cover_end_included_all(nonempty_intervals, end) ==
    IF end = None THEN None
    ELSE Bool(\A k \in DOMAIN nonempty_intervals :
                nonempty_intervals[k].end = end
                    => Truthy(is_end_included(nonempty_intervals[k])))

cover_end_included(nonempty_intervals, end) ==
    IF end = None THEN None
    ELSE Bool(\E k \in DOMAIN nonempty_intervals :
                /\ nonempty_intervals[k].end = end
                /\ Truthy(is_end_included(nonempty_intervals[k])))

minimal_cover(intervals) ==
    LET nonempty_intervals == SelectSeq(intervals, LAMBDA i : ~is_empty(i))
    IN  IF nonempty_intervals = <<>> THEN empty
        ELSE
            LET start == cover_start(nonempty_intervals)
                end == cover_end(nonempty_intervals)
            IN  from_boundaries(start, end,
                                cover_start_included(nonempty_intervals, start),
                                cover_end_included(nonempty_intervals, end))

\* A slip: the ray keeps the inclusion of the bound instead of negating it.
to_the_right_same_inclusion(self) ==
    IF is_empty(self) THEN timeline
    ELSE IF self.end = None THEN empty
    ELSE right_ray(self.end, is_end_included(self))

to_the_right(self) ==
    IF is_empty(self) THEN timeline
    ELSE IF self.end = None THEN empty
    ELSE right_ray(self.end, PyNot(is_end_included(self)))

\* A slip: the ray is open whatever the inclusion of the bound.
to_the_left_always_open(self) ==
    IF is_empty(self) THEN timeline
    ELSE IF self.start = None THEN empty
    ELSE left_ray(self.start, PyFalse)

to_the_left(self) ==
    IF is_empty(self) THEN timeline
    ELSE IF self.start = None THEN empty
    ELSE left_ray(self.start, PyNot(is_start_included(self)))

\* A slip: two intervals that exclude a shared bound leave no point between.
between_no_point(first, second) ==
    IF ~is_left_of(first, second) THEN empty
    ELSE IF is_empty(first) /\ is_empty(second) THEN timeline
    ELSE IF is_nonempty(first) /\ is_empty(second) THEN to_the_right(first)
    ELSE IF is_empty(first) /\ is_nonempty(second) THEN to_the_left(second)
    ELSE IF first.end = None \/ second.start = None THEN empty
    ELSE IF first.end >= second.start THEN empty
    ELSE from_boundaries(first.end, second.start,
                         PyNot(is_end_included(first)),
                         PyNot(is_start_included(second)))

between(first, second) ==
    IF ~is_left_of(first, second) THEN empty
    ELSE IF is_empty(first) /\ is_empty(second) THEN timeline
    ELSE IF is_nonempty(first) /\ is_empty(second) THEN to_the_right(first)
    ELSE IF is_empty(first) /\ is_nonempty(second) THEN to_the_left(second)
    ELSE IF first.end = None \/ second.start = None THEN empty
    ELSE IF first.end > second.start THEN empty
    ELSE IF first.end = second.start THEN
        IF Truthy(is_end_included(first)) \/ Truthy(is_start_included(second))
        THEN empty
        ELSE point(first.end)
    ELSE from_boundaries(first.end, second.start,
                         PyNot(is_end_included(first)),
                         PyNot(is_start_included(second)))

closure(self) ==
    CASE self.kind \in {"OPEN", "CLOSED_OPEN", "OPEN_CLOSED"} ->
            TimeInterval("CLOSED", self.start, self.end)
      [] self.kind = "RIGHT_OPEN" -> TimeInterval("RIGHT_CLOSED", self.start, None)
      [] self.kind = "LEFT_OPEN" -> TimeInterval("LEFT_CLOSED", None, self.end)
      [] OTHER -> self

interior(self) ==
    CASE self.kind = "POINT" -> empty
      [] self.kind \in {"CLOSED", "CLOSED_OPEN", "OPEN_CLOSED"} ->
            TimeInterval("OPEN", self.start, self.end)
      [] self.kind = "RIGHT_CLOSED" -> TimeInterval("RIGHT_OPEN", self.start, None)
      [] self.kind = "LEFT_CLOSED" -> TimeInterval("LEFT_OPEN", None, self.end)
      [] OTHER -> self

(***************************************************************************)
(* TimeSet: the tuple _intervals of its components.                        *)
(***************************************************************************)

\* The outcome of a TimeSet call that raises ValueError.
TimeSetError == <<ValueError>>

TimeSet_is_valid(intervals) ==
    /\ \A k \in DOMAIN intervals : ~is_empty(intervals[k])
    /\ \A k \in 1..(Len(intervals) - 1) :
            is_left_of_disconnectedly(intervals[k], intervals[k + 1])

\* A slip: _is_valid never consulted, any tuple of intervals is stored.
TimeSet_unchecked(intervals) ==
    IF \E k \in DOMAIN intervals : Raises(intervals[k]) THEN TimeSetError
    ELSE intervals

\* TimeSet.__init__; an argument whose evaluation raised never reaches it.
TimeSet(intervals) ==
    IF \E k \in DOMAIN intervals : Raises(intervals[k]) THEN TimeSetError
    ELSE IF TimeSet_is_valid(intervals) THEN intervals
    ELSE TimeSetError

TimeSet_empty == TimeSet(<<>>)

TimeSet_timeline == TimeSet(<<timeline>>)

\* union, sort_key: (start is not None, start, end is None, end).
sort_key(i) ==
    <<Bool(i.start # None), i.start, Bool(i.end = None), i.end>>

\* Python's tuple order on two sort keys: the first differing item decides.
key_less(k1, k2) ==
    \E n \in 1..4 :
        /\ \A m \in 1..(n - 1) : k1[m] = k2[m]
        /\ k1[n] < k2[n]

\* One step of the stable sort: x goes in front of the first item whose key is
\* strictly greater, so behind every earlier item of equal key.
RECURSIVE sort_insert(_, _)
sort_insert(sorted, x) ==
    IF sorted = <<>> THEN <<x>>
    ELSE IF key_less(sort_key(x), sort_key(Head(sorted)))
    THEN <<x>> \o sorted
    ELSE <<Head(sorted)>> \o sort_insert(Tail(sorted), x)

\* list.sort(key=sort_key): stable.
RECURSIVE sort_stable(_, _)
sort_stable(sorted, rest) ==
    IF rest = <<>> THEN sorted
    ELSE sort_stable(sort_insert(sorted, Head(rest)), Tail(rest))

\* union, the grouping loop: an interval joins the current group when the
\* group's last interval touches it.
RECURSIVE group_touching(_, _, _)
group_touching(components, current_group, rest) ==
    IF rest = <<>> THEN Append(components, current_group)
    ELSE IF touches(current_group[Len(current_group)], Head(rest))
    THEN group_touching(components, Append(current_group, Head(rest)), Tail(rest))
    ELSE group_touching(Append(components, current_group), <<Head(rest)>>, Tail(rest))

TimeSet_union(intervals) ==
    IF \E k \in DOMAIN intervals : Raises(intervals[k]) THEN TimeSetError
    ELSE
        LET nonempty_intervals == SelectSeq(intervals, is_nonempty)
        IN  IF nonempty_intervals = <<>> THEN TimeSet_empty
            ELSE
                LET sorted == sort_stable(<<>>, nonempty_intervals)
                    components == group_touching(<<>>, <<Head(sorted)>>, Tail(sorted))
                    merged_intervals ==
                        [k \in DOMAIN components |-> minimal_cover(components[k])]
                IN  TimeSet(merged_intervals)

TimeSet_or(self, other) ==
    IF self = TimeSetError \/ other = TimeSetError THEN TimeSetError
    ELSE TimeSet_union(self \o other)

TimeSet_contains_timestamp(self, moment) ==
    \E k \in DOMAIN self : contains_timestamp(self[k], moment)

\* __or__ with a TimeInterval: union(*self._intervals, other).
TimeSet_or_interval(self, other) ==
    IF self = TimeSetError \/ Raises(other) THEN TimeSetError
    ELSE TimeSet_union(Append(self, other))

\* intersection_with_interval, the loop over the components: a component to
\* the left of other is passed over, the first one to its right ends the loop.
RECURSIVE intersection_with_interval_walk(_, _, _, _)
intersection_with_interval_walk(self, other, k, intersection_intervals) ==
    IF k > Len(self) THEN intersection_intervals
    ELSE IF is_left_of(self[k], other)
    THEN intersection_with_interval_walk(self, other, k + 1, intersection_intervals)
    ELSE IF is_right_of(self[k], other) THEN intersection_intervals
    ELSE
        LET intersection_interval == TimeInterval_and(self[k], other)
        IN  intersection_with_interval_walk(self, other, k + 1,
                IF is_nonempty(intersection_interval)
                THEN Append(intersection_intervals, intersection_interval)
                ELSE intersection_intervals)

intersection_with_interval(self, other) ==
    IF self = TimeSetError \/ Raises(other) THEN TimeSetError
    ELSE IF self = <<>> \/ is_empty(other) THEN TimeSet_empty
    ELSE TimeSet(intersection_with_interval_walk(self, other, 1, <<>>))

\* A slip: the pointer of the component that ends later is advanced.
ends_earlier_inverted(self_interval, other_interval) ==
    IF (self_interval.end = None) # (other_interval.end = None)
    THEN self_interval.end = None
    ELSE IF self_interval.end = None THEN FALSE
    ELSE self_interval.end > other_interval.end

\* intersection_with_timeset, the test that advances i rather than j after an
\* overlapping pair: (self.end is None, self.end) < (other.end is None, other.end).
ends_earlier(self_interval, other_interval) ==
    IF (self_interval.end = None) # (other_interval.end = None)
    THEN other_interval.end = None
    ELSE IF self_interval.end = None THEN FALSE
    ELSE self_interval.end < other_interval.end

RECURSIVE intersection_walk(_, _, _, _, _)
intersection_walk(self, other, i, j, intersection_intervals) ==
    IF ~(i <= Len(self) /\ j <= Len(other)) THEN intersection_intervals
    ELSE IF is_left_of(self[i], other[j])
    THEN intersection_walk(self, other, i + 1, j, intersection_intervals)
    ELSE IF is_right_of(self[i], other[j])
    THEN intersection_walk(self, other, i, j + 1, intersection_intervals)
    ELSE
        LET intersection_interval == TimeInterval_and(self[i], other[j])
            kept ==
                IF ~is_empty(intersection_interval)
                THEN Append(intersection_intervals, intersection_interval)
                ELSE intersection_intervals
        IN  IF ends_earlier(self[i], other[j])
            THEN intersection_walk(self, other, i + 1, j, kept)
            ELSE intersection_walk(self, other, i, j + 1, kept)

intersection_with_timeset(self, other) ==
    IF self = TimeSetError \/ other = TimeSetError THEN TimeSetError
    ELSE IF self = <<>> \/ other = <<>> THEN TimeSet_empty
    ELSE TimeSet(intersection_walk(self, other, 1, 1, <<>>))

\* TimeSet.contains_timeinterval: some component contains the interval.
TimeSet_contains_timeinterval(self, interval) ==
    \E k \in DOMAIN self : contains_timeinterval(self[k], interval)

\* A slip: the pointer into self moves on after every match as well.
RECURSIVE contains_timeset_walk_advance_both(_, _, _, _)
contains_timeset_walk_advance_both(self, timeset, i, j) ==
    IF ~(j <= Len(timeset)) THEN TRUE
    ELSE IF i > Len(self) THEN FALSE
    ELSE IF contains_timeinterval(self[i], timeset[j])
    THEN contains_timeset_walk_advance_both(self, timeset, i + 1, j + 1)
    ELSE IF is_left_of(self[i], timeset[j])
    THEN contains_timeset_walk_advance_both(self, timeset, i + 1, j)
    ELSE FALSE

contains_timeset_advance_both(self, timeset) ==
    contains_timeset_walk_advance_both(self, timeset, 1, 1)

\* contains_timeset, the loop: j moves on when component i of self contains
\* component j of timeset, i moves on when component i lies to the left of it.
RECURSIVE contains_timeset_walk(_, _, _, _)
contains_timeset_walk(self, timeset, i, j) ==
    IF ~(j <= Len(timeset)) THEN TRUE
    ELSE IF i > Len(self) THEN FALSE
    ELSE IF contains_timeinterval(self[i], timeset[j])
    THEN contains_timeset_walk(self, timeset, i, j + 1)
    ELSE IF is_left_of(self[i], timeset[j])
    THEN contains_timeset_walk(self, timeset, i + 1, j)
    ELSE FALSE

contains_timeset(self, timeset) ==
    contains_timeset_walk(self, timeset, 1, 1)

\* A slip: the gaps between adjacent components are left out.
complement_components_rays_only(self) ==
    <<to_the_left(self[1]), to_the_right(self[Len(self)])>>

\* complement, the list handed to union: the ray to the left of the first
\* component, the gap between each adjacent pair, the ray to the right of the
\* last component.
complement_components(self) ==
    <<to_the_left(self[1])>>
        \o [k \in 1..(Len(self) - 1) |-> between(self[k], self[k + 1])]
        \o <<to_the_right(self[Len(self)])>>

\* A slip: the complement of the empty set taken to be empty.
complement_of_empty_is_empty(self) ==
    IF self = TimeSetError THEN TimeSetError
    ELSE IF self = <<>> THEN TimeSet_empty
    ELSE TimeSet_union(complement_components(self))

complement(self) ==
    IF self = TimeSetError THEN TimeSetError
    ELSE IF self = <<>> THEN TimeSet_timeline
    ELSE TimeSet_union(complement_components(self))

\* __sub__ with a TimeSet: self & other.complement().
TimeSet_sub(self, other) ==
    intersection_with_timeset(self, complement(other))

\* __sub__ with a TimeInterval: other is first wrapped as TimeSet(other).
TimeSet_sub_interval(self, other) ==
    TimeSet_sub(self, TimeSet(<<other>>))

\* TimeSet.closure: the union of the closures of the components.
TimeSet_closure(self) ==
    IF self = TimeSetError THEN TimeSetError
    ELSE TimeSet_union([k \in DOMAIN self |-> closure(self[k])])

\* TimeSet.interior: the union of the interiors of the components.
TimeSet_interior(self) ==
    IF self = TimeSetError THEN TimeSetError
    ELSE TimeSet_union([k \in DOMAIN self |-> interior(self[k])])

(***************************************************************************)
(* The specifications.  Every operation of the module is a pure function   *)
(* of immutable values: an initial state holds the arguments of one call   *)
(* (args), an action makes the call and records which call it was (op) and *)
(* what it returned or raised (res).                                       *)
(***************************************************************************)

\* The longest argument list handed to TimeSet.union.
MaxArgs == 3

\* res before any call has been made.
NoResult == <<>>

\* The number of distinct timestamps that bound the intervals of those lists.
MaxUnionT == 2

\* The valid intervals an argument list of TimeSet.union is drawn from.
UnionIntervals ==
    {i \in Intervals :
        /\ i.start # None => i.start <= 2 * MaxUnionT
        /\ i.end # None => i.end <= 2 * MaxUnionT}

\* Every TimeSet the constructor accepts with at most n components.
RECURSIVE TimeSetsUpTo(_)
TimeSetsUpTo(n) ==
    IF n = 0 THEN {<<>>}
    ELSE LET shorter == TimeSetsUpTo(n - 1)
         IN  shorter \cup
                {Append(s, i) : <<s, i>> \in
                    {p \in shorter \X Intervals :
                        /\ Len(p[1]) = n - 1
                        /\ TimeSet_is_valid(Append(p[1], p[2]))}}

\* Every canonical TimeSet over Timestamps: MaxT timestamps separate at most
\* MaxT + 1 components.
CanonicalTimeSets == TimeSetsUpTo(MaxT + 1)

\* ---- from_boundaries on every combination of bounds and flags ----

InitFromBoundaries ==
    /\ op = "init"
    /\ args \in (Timestamps \cup {None}) \X (Timestamps \cup {None}) \X Flags \X Flags
    /\ res = NoResult

FromBoundaries ==
    /\ op = "init"
    /\ op' = "from_boundaries"
    /\ res' = from_boundaries(args[1], args[2], args[3], args[4])
    /\ UNCHANGED args

NextFromBoundaries == FromBoundaries

SpecFromBoundaries == InitFromBoundaries /\ [][NextFromBoundaries]_vars

\* ---- the interval operators on every triple of valid intervals ----

InitInterval ==
    /\ op = "init"
    /\ args \in Intervals \X Intervals \X Intervals
    /\ res = NoResult

\* a & b
And ==
    /\ op = "init"
    /\ op' = "and"
    /\ res' = TimeInterval_and(args[1], args[2])
    /\ UNCHANGED args

\* (a & b) & c
AndAnd ==
    /\ op = "init"
    /\ op' = "and_and"
    /\ res' = TimeInterval_and(TimeInterval_and(args[1], args[2]), args[3])
    /\ UNCHANGED args

\* a.contains(b)
Contains ==
    /\ op = "init"
    /\ op' = "contains"
    /\ res' = contains_timeinterval(args[1], args[2])
    /\ UNCHANGED args

\* a.contains(b) next to a & b
ContainsAnd ==
    /\ op = "init"
    /\ op' = "contains_and"
    /\ res' = <<contains_timeinterval(args[1], args[2]), TimeInterval_and(args[1], args[2])>>
    /\ UNCHANGED args

\* TimeSet.union(a, b)
UnionPair ==
    /\ op = "init"
    /\ op' = "union_pair"
    /\ res' = TimeSet_union(<<args[1], args[2]>>)
    /\ UNCHANGED args

\* from_boundaries(a.start, a.end, a.is_start_included, a.is_end_included)
RoundTrip ==
    /\ op = "init"
    /\ op' = "round_trip"
    /\ res' = from_boundaries(args[1].start, args[1].end,
                              is_start_included(args[1]), is_end_included(args[1]))
    /\ UNCHANGED args

\* a.is_left_of(b)
IsLeftOf ==
    /\ op = "init"
    /\ op' = "is_left_of"
    /\ res' = is_left_of(args[1], args[2])
    /\ UNCHANGED args

\* a.is_left_of_disconnectedly(b)
IsLeftOfDisconnectedly ==
    /\ op = "init"
    /\ op' = "is_left_of_disconnectedly"
    /\ res' = is_left_of_disconnectedly(args[1], args[2])
    /\ UNCHANGED args

\* a.touches(b)
Touches ==
    /\ op = "init"
    /\ op' = "touches"
    /\ res' = touches(args[1], args[2])
    /\ UNCHANGED args

\* a.to_the_left()
ToTheLeft ==
    /\ op = "init"
    /\ op' = "to_the_left"
    /\ res' = to_the_left(args[1])
    /\ UNCHANGED args

\* a.to_the_right()
ToTheRight ==
    /\ op = "init"
    /\ op' = "to_the_right"
    /\ res' = to_the_right(args[1])
    /\ UNCHANGED args

\* TimeInterval.between(a, b)
Between ==
    /\ op = "init"
    /\ op' = "between"
    /\ res' = between(args[1], args[2])
    /\ UNCHANGED args

\* TimeInterval.minimal_cover(a, b, c)
MinimalCover ==
    /\ op = "init"
    /\ op' = "minimal_cover"
    /\ res' = minimal_cover(args)
    /\ UNCHANGED args

\* a.closure()
Closure ==
    /\ op = "init"
    /\ op' = "closure"
    /\ res' = closure(args[1])
    /\ UNCHANGED args

\* a.interior()
Interior ==
    /\ op = "init"
    /\ op' = "interior"
    /\ res' = interior(args[1])
    /\ UNCHANGED args

\* The arguments of a direct construction: two bounds, each a timestamp or
\* None, and two flags.
InitRaw ==
    /\ op = "raw"
    /\ args \in (Timestamps \cup {None}) \X (Timestamps \cup {None}) \X Flags \X Flags
    /\ res = NoResult

\* TimeInterval(_kind=kind, _start=start, _end=end).
Construct ==
    /\ op = "raw"
    /\ op' = "construct"
    /\ \E kind \in Kinds :
            /\ args' = <<kind, args[1], args[2]>>
            /\ res' = TimeInterval(kind, args[1], args[2])

\* A per-shape constructor; the two-bound constructors compare their bounds
\* first and so are given timestamps, the ray constructors test a bool.
ConstructShape ==
    /\ op = "raw"
    /\ args[3] # None
    /\ op' = "construct_shape"
    /\ \E name \in ShapeConstructors :
            /\ name \in {"open", "closed", "closedopen", "openclosed"}
                    => (args[1] # None /\ args[2] # None)
            /\ args' = <<name, args[1], args[2], args[3]>>
            /\ res' = per_shape_constructor(name, args[1], args[2], args[3])

\* TimeInterval.from_boundaries(start, end, start_included, end_included).
ConstructFromBoundaries ==
    /\ op = "raw"
    /\ op' = "construct_from_boundaries"
    /\ res' = from_boundaries(args[1], args[2], args[3], args[4])
    /\ UNCHANGED args

NextInterval ==
    \/ Construct \/ ConstructShape \/ ConstructFromBoundaries
    \/ And \/ AndAnd \/ Contains \/ ContainsAnd \/ UnionPair
    \/ RoundTrip \/ IsLeftOf \/ IsLeftOfDisconnectedly \/ Touches
    \/ ToTheLeft \/ ToTheRight \/ Between \/ MinimalCover \/ Closure \/ Interior

\* One call on valid intervals or one direct construction.
InitIntervalCall == InitInterval \/ InitRaw

SpecInterval == InitIntervalCall /\ [][NextInterval]_vars

\* ---- TimeSet.union on every argument list ----

InitUnion ==
    /\ op = "init"
    /\ \E n \in 0..MaxArgs : args \in [1..n -> UnionIntervals]
    /\ res = NoResult

Union ==
    /\ op = "init"
    /\ op' = "union"
    /\ res' = TimeSet_union(args)
    /\ UNCHANGED args

NextUnion == Union

SpecUnion == InitUnion /\ [][NextUnion]_vars

\* ---- the TimeSet operators on every canonical TimeSet ----

InitTimeSet ==
    /\ op = "init"
    /\ args \in {<<s>> : s \in CanonicalTimeSets}
    /\ res = NoResult

\* s.complement()
Complement ==
    /\ op = "init"
    /\ op' = "complement"
    /\ res' = complement(args[1])
    /\ UNCHANGED args

\* s.intersection_with_timeset(s.complement())
AndComplement ==
    /\ op = "init"
    /\ op' = "and_complement"
    /\ res' = intersection_with_timeset(args[1], complement(args[1]))
    /\ UNCHANGED args

\* s | s.complement()
OrComplement ==
    /\ op = "init"
    /\ op' = "or_complement"
    /\ res' = TimeSet_or(args[1], complement(args[1]))
    /\ UNCHANGED args

\* s.complement().complement()
ComplementComplement ==
    /\ op = "init"
    /\ op' = "complement_complement"
    /\ res' = complement(complement(args[1]))
    /\ UNCHANGED args

NextTimeSet == Complement \/ AndComplement \/ OrComplement \/ ComplementComplement

SpecTimeSet == InitTimeSet /\ [][NextTimeSet]_vars

\* A canonical TimeSet and a valid interval, the operands of s | i, s & i,
\* s - i and the arguments of TimeSet(*s, i).
InitTimeSetInterval ==
    /\ op = "init_interval"
    /\ args \in CanonicalTimeSets \X Intervals
    /\ res = NoResult

\* Two canonical TimeSets, the operands of s | t, s & t, s - t and the
\* arguments of TimeSet(*s, *t).
InitTimeSetPair ==
    /\ op = "init_pair"
    /\ args \in CanonicalTimeSets \X CanonicalTimeSets
    /\ res = NoResult

\* One call on a TimeSet, on a TimeSet and an interval or on two TimeSets.
InitTimeSetOps == InitTimeSet \/ InitTimeSetInterval \/ InitTimeSetPair

\* TimeSet.empty()
SetEmpty ==
    /\ op = "init"
    /\ op' = "set_empty"
    /\ res' = TimeSet_empty
    /\ args' = <<>>

\* TimeSet.timeline()
SetTimeline ==
    /\ op = "init"
    /\ op' = "set_timeline"
    /\ res' = TimeSet_timeline
    /\ args' = <<>>

\* s.closure()
SetClosure ==
    /\ op = "init"
    /\ op' = "set_closure"
    /\ res' = TimeSet_closure(args[1])
    /\ UNCHANGED args

\* s.interior()
SetInterior ==
    /\ op = "init"
    /\ op' = "set_interior"
    /\ res' = TimeSet_interior(args[1])
    /\ UNCHANGED args

\* TimeSet(*s, i)
SetNewInterval ==
    /\ op = "init_interval"
    /\ op' = "set_new_interval"
    /\ res' = TimeSet(Append(args[1], args[2]))
    /\ UNCHANGED args

\* s | i
SetOrInterval ==
    /\ op = "init_interval"
    /\ op' = "set_or_interval"
    /\ res' = TimeSet_or_interval(args[1], args[2])
    /\ UNCHANGED args

\* s & i, s.intersection_with_interval(i)
SetAndInterval ==
    /\ op = "init_interval"
    /\ op' = "set_and_interval"
    /\ res' = intersection_with_interval(args[1], args[2])
    /\ UNCHANGED args

\* s - i
SetSubInterval ==
    /\ op = "init_interval"
    /\ op' = "set_sub_interval"
    /\ res' = TimeSet_sub_interval(args[1], args[2])
    /\ UNCHANGED args

\* TimeSet(*s, *t)
SetNew ==
    /\ op = "init_pair"
    /\ op' = "set_new"
    /\ res' = TimeSet(args[1] \o args[2])
    /\ UNCHANGED args

\* s | t, TimeSet.union(*s, *t)
SetOr ==
    /\ op = "init_pair"
    /\ op' = "set_or"
    /\ res' = TimeSet_or(args[1], args[2])
    /\ UNCHANGED args

\* s & t, s.intersection_with_timeset(t)
SetAnd ==
    /\ op = "init_pair"
    /\ op' = "set_and"
    /\ res' = intersection_with_timeset(args[1], args[2])
    /\ UNCHANGED args

\* s - t
SetSub ==
    /\ op = "init_pair"
    /\ op' = "set_sub"
    /\ res' = TimeSet_sub(args[1], args[2])
    /\ UNCHANGED args

\* s.contains(i) next to s.contains(TimeSet.union(i))
SetContainsInterval ==
    /\ op = "init_interval"
    /\ op' = "set_contains_interval"
    /\ res' = <<TimeSet_contains_timeinterval(args[1], args[2]),
                contains_timeset(args[1], TimeSet_union(<<args[2]>>))>>
    /\ UNCHANGED args

\* s.contains(t), s.contains_timeset(t)
SetContains ==
    /\ op = "init_pair"
    /\ op' = "set_contains"
    /\ res' = contains_timeset(args[1], args[2])
    /\ UNCHANGED args

NextTimeSetOps ==
    \/ Complement \/ SetEmpty \/ SetTimeline \/ SetClosure \/ SetInterior
    \/ SetNewInterval \/ SetOrInterval \/ SetAndInterval \/ SetSubInterval
    \/ SetNew \/ SetOr \/ SetAnd \/ SetSub
    \/ SetContainsInterval \/ SetContains

SpecTimeSetOps == InitTimeSetOps /\ [][NextTimeSetOps]_vars

\* The number of distinct timestamps that bound the intervals of a list whose
\* order is permuted.
MaxOrderT == 1

\* The valid intervals such a list is drawn from.
OrderIntervals ==
    {i \in Intervals :
        /\ i.start # None => i.start <= 2 * MaxOrderT
        /\ i.end # None => i.end <= 2 * MaxOrderT}

\* The arguments of one call of TimeSet.union, to be handed over in two orders.
InitUnionOrder ==
    /\ op = "init"
    /\ \E n \in 0..MaxArgs : args \in [1..n -> OrderIntervals]
    /\ res = NoResult

\* TimeSet.union(*args) next to TimeSet.union of the same arguments in
\* another order.
UnionPermuted ==
    /\ op = "init"
    /\ op' = "union_permuted"
    /\ \E p \in Permutations(DOMAIN args) :
            res' = <<TimeSet_union(args),
                     TimeSet_union([k \in DOMAIN args |-> args[p[k]]])>>
    /\ UNCHANGED args

NextUnionOrder == UnionPermuted

SpecUnionOrder == InitUnionOrder /\ [][NextUnionOrder]_vars

(***************************************************************************)
(* Activities of src/src/activities.py: one mutable object with the fields *)
(* activities_graph (a networkx DiGraph, here its nodes and its edges      *)
(* <<parent, child>>) and slug_to_activity (a dict, here its keys: the     *)
(* value under a slug is the Activity of that slug, and Activity.__eq__    *)
(* and __hash__ look at the slug only).  Under SpecActivities args is the  *)
(* parsed document of the last call of load_from_yaml, res.self the object *)
(* as that call left it and res.raised the exception it ended with ("" for *)
(* a normal return).                                                       *)
(***************************************************************************)

\* The slugs a document uses as keys of 'activities' and names as parents.
Slugs == {"a", "b"}

\* The longest 'parents' list of a document.
MaxParents == 1

ParentLists == UNION {[1..n -> Slugs] : n \in 0..MaxParents}

\* The values found under a key of 'activities': something that is not a
\* mapping, or a mapping with or without 'title' whose 'parents' is absent,
\* None, not a list, or a list of slugs.
Items ==
    {[slug |-> slug, is_mapping |-> FALSE, has_title |-> FALSE,
      parents_kind |-> "absent", parents |-> <<>>] : slug \in Slugs}
    \cup
    {[slug |-> slug, is_mapping |-> TRUE, has_title |-> t,
      parents_kind |-> k, parents |-> <<>>] :
        slug \in Slugs, t \in BOOLEAN, k \in {"absent", "none", "not_list"}}
    \cup
    {[slug |-> slug, is_mapping |-> TRUE, has_title |-> t,
      parents_kind |-> "list", parents |-> ps] :
        slug \in Slugs, t \in BOOLEAN, ps \in ParentLists}

\* The items of a mapping in document order; the keys of a mapping are distinct.
ItemLists ==
    {items \in UNION {[1..n -> Items] : n \in 0..Cardinality(Slugs)} :
        \A j, k \in DOMAIN items : j # k => items[j].slug # items[k].slug}

\* What yaml.safe_load returns: a root that is not a mapping, a root whose
\* 'activities' is not a mapping, or a root with a mapping of activities.
Documents ==
    {[is_mapping |-> FALSE, activities_is_mapping |-> FALSE, activities |-> <<>>],
     [is_mapping |-> TRUE, activities_is_mapping |-> FALSE, activities |-> <<>>]}
    \cup
    {[is_mapping |-> TRUE, activities_is_mapping |-> TRUE, activities |-> items] :
        items \in ItemLists}

\* Activities(): an empty graph and an empty dict.
Activities ==
    [activities_graph |-> [nodes |-> {}, edges |-> {}], slug_to_activity |-> {}]

\* nx.is_directed_acyclic_graph: a finite digraph holds a cycle (a self-loop
\* included) iff some non-empty set of nodes has, for each of its nodes, an
\* edge into it from the set.
is_directed_acyclic_graph(graph) ==
    ~\E cycle \in (SUBSET graph.nodes) \ {{}} :
        \A child \in cycle : \E parent \in cycle : <<parent, child>> \in graph.edges

\* A slip: clear forgets the dict.
clear_graph_only(self) ==
    [activities_graph |-> [nodes |-> {}, edges |-> {}],
     slug_to_activity |-> self.slug_to_activity]

clear(self) ==
    [activities_graph |-> [nodes |-> {}, edges |-> {}], slug_to_activity |-> {}]

\* load_from_yaml, "Create activities": the loop over the items from item k on.
RECURSIVE create_activities(_, _, _)
create_activities(self, activities_data, k) ==
    IF k > Len(activities_data) THEN [self |-> self, raised |-> ""]
    ELSE
        LET item == activities_data[k]
        IN  IF ~item.is_mapping THEN [self |-> self, raised |-> "ValueError"]
            ELSE IF ~item.has_title THEN [self |-> self, raised |-> "KeyError"]
            ELSE IF item.slug \in self.slug_to_activity
            THEN [self |-> self, raised |-> "ValueError"]
            ELSE create_activities(
                    [activities_graph |->
                        [nodes |-> self.activities_graph.nodes \cup {item.slug},
                         edges |-> self.activities_graph.edges],
                     slug_to_activity |-> self.slug_to_activity \cup {item.slug}],
                    activities_data, k + 1)

\* load_from_yaml, the loop over the parents of one activity from parent n on.
RECURSIVE add_parents(_, _, _, _)
add_parents(self, child, parents, n) ==
    IF n > Len(parents) THEN [self |-> self, raised |-> ""]
    ELSE IF parents[n] \notin self.slug_to_activity
    THEN [self |-> self, raised |-> "ValueError"]
    ELSE add_parents(
            [activities_graph |->
                [nodes |-> self.activities_graph.nodes \cup {parents[n], child},
                 edges |-> self.activities_graph.edges \cup {<<parents[n], child>>}],
             slug_to_activity |-> self.slug_to_activity],
            child, parents, n + 1)

\* load_from_yaml, "Create connections": the loop over the items from item k on.
RECURSIVE create_connections(_, _, _)
create_connections(self, activities_data, k) ==
    IF k > Len(activities_data) THEN [self |-> self, raised |-> ""]
    ELSE
        LET item == activities_data[k]
        IN  IF item.parents_kind = "not_list"
            THEN [self |-> self, raised |-> "ValueError"]
            ELSE
                LET added == add_parents(self, item.slug, item.parents, 1)
                IN  IF added.raised # "" THEN added
                    ELSE create_connections(added.self, activities_data, k + 1)

validate(self) ==
    IF ~is_directed_acyclic_graph(self.activities_graph)
    THEN [self |-> self, raised |-> "ValueError"]
    ELSE [self |-> self, raised |-> ""]

\* load_from_yaml after yaml.safe_load has returned data.
load_from_yaml(self, data) ==
    IF ~data.is_mapping THEN [self |-> self, raised |-> "ValueError"]
    ELSE IF ~data.activities_is_mapping THEN [self |-> self, raised |-> "ValueError"]
    ELSE
        LET created == create_activities(clear(self), data.activities, 1)
        IN  IF created.raised # "" THEN created
            ELSE
                LET connected == create_connections(created.self, data.activities, 1)
                IN  IF connected.raised # "" THEN connected
                    ELSE validate(connected.self)

InitActivities ==
    /\ op = "constructed"
    /\ args = <<>>
    /\ res = [self |-> Activities, raised |-> ""]

\* activities.load_from_yaml(filename), the file holding any document.
LoadFromYaml ==
    /\ op' = "load_from_yaml"
    /\ \E data \in Documents :
            /\ args' = <<data>>
            /\ res' = load_from_yaml(res.self, data)

NextActivities == LoadFromYaml

SpecActivities == InitActivities /\ [][NextActivities]_vars

(***************************************************************************)
(* The claims.                                                             *)
(***************************************************************************)

\* C1: TimeSet.union of any finite list of valid intervals returns without
\* raising, and the components it returns are non-empty and each adjacent
\* pair is separated by a gap (left.is_left_of_disconnectedly(right)).
C1_UnionReturnsCanonical ==
    op = "union" =>
        /\ res # TimeSetError
        /\ \A k \in DOMAIN res : ~is_empty(res[k])
        /\ \A k \in 1..(Len(res) - 1) : is_left_of_disconnectedly(res[k], res[k + 1])

\* C2: whenever TimeSet.union returns, the result contains exactly the
\* moments of its arguments: a moment is in some component iff it is in
\* some argument.
C2_UnionExact ==
    (op = "union" /\ res # TimeSetError) =>
        \A t \in Moments :
            TimeSet_contains_timestamp(res, t)
                <=> \E k \in DOMAIN args : contains_timestamp(args[k], t)

\* C2 witness: union returned for three arguments, merging two of them into
\* one component and keeping the third apart.
C2_Witness ==
    /\ op = "union"
    /\ res # TimeSetError
    /\ Len(args) = 3
    /\ Len(res) = 2
    /\ \A k \in DOMAIN args : is_nonempty(args[k]) /\ args[k] # res[1]

\* The case of C3: union(closed(d1, d2), closedopen(d2, d3)), d1 < d2 < d3.
C3_Case ==
    /\ op = "union_pair"
    /\ args[1].kind = "CLOSED"
    /\ args[2].kind = "CLOSED_OPEN"
    /\ args[1].end = args[2].start

\* C3 as stated: union(closed(d1, d2), closedopen(d2, d3)) is the single
\* component closed(d1, d3).
C3_UnionIsClosed ==
    C3_Case => res = <<closed(args[1].start, args[2].end)>>

\* C3 as amended: union(closed(d1, d2), closedopen(d2, d3)) is the single
\* component closedopen(d1, d3): d3 is excluded, as it is in the arguments.
C3_UnionIsClosedOpen ==
    C3_Case => res = <<closedopen(args[1].start, args[2].end)>>

\* C3 witness: the union of a closed and a closed-open interval that share
\* the bound d2 has been computed.
C3_Witness ==
    C3_Case /\ Len(res) = 1 /\ res[1].start < args[1].end /\ args[1].end < res[1].end

\* C4: from_boundaries raises ValueError unless each inclusion flag is None
\* exactly when its bound is None.
C4_FlagMismatchRaises ==
    (/\ op = "from_boundaries"
     /\ \/ (args[1] = None) # (args[3] = None)
        \/ (args[2] = None) # (args[4] = None))
        => Raises(res)

\* C5: for every canonical TimeSet s, s.intersection_with_timeset(s.complement())
\* is the empty TimeSet.
C5_AndComplementEmpty ==
    op = "and_complement" => res = TimeSet_empty

\* C5 witness: the intersection was computed for a set of several components
\* whose complement has several components too.
C5_Witness ==
    /\ op = "and_complement"
    /\ Len(args[1]) >= 2
    /\ Len(complement(args[1])) >= 2
    /\ res = <<>>

\* C6: for every canonical TimeSet s, s | s.complement() returns the TimeSet
\* whose single component is the timeline.
C6_OrComplementTimeline ==
    op = "or_complement" => res = TimeSet_timeline

\* C6 witness: the union was computed for a set of several components, one
\* of them a point, and gave the timeline.
C6_Witness ==
    /\ op = "or_complement"
    /\ Len(args[1]) >= 2
    /\ \E k \in DOMAIN args[1] : args[1][k].kind = "POINT"
    /\ res = <<timeline>>

\* C7: interval intersection is commutative: a & b equals b & a.
C7_AndCommutative ==
    op = "and" => res = TimeInterval_and(args[2], args[1])

\* C7 witness: a & b computed for two different overlapping intervals with
\* the same start, one including it and one not; the result is neither.
C7_Witness ==
    /\ op = "and"
    /\ args[1].start = args[2].start
    /\ args[1].start # None
    /\ is_start_included(args[1]) # is_start_included(args[2])
    /\ is_nonempty(res)
    /\ res \notin {args[1], args[2]}

\* C8: interval intersection is associative: (a & b) & c equals a & (b & c).
C8_AndAssociative ==
    op = "and_and" => res = TimeInterval_and(args[1], TimeInterval_and(args[2], args[3]))

\* C8 witness: (a & b) & c computed for three different intervals, non-empty
\* and different from each of them and from a & b.
C8_Witness ==
    /\ op = "and_and"
    /\ is_nonempty(res)
    /\ res \notin {args[1], args[2], args[3], TimeInterval_and(args[1], args[2])}

\* C9: TimeSet.union(x, x) equals TimeSet.union(x): the empty TimeSet when x
\* is Empty, otherwise the single component x.
C9_UnionIdempotent ==
    (op = "union" /\ Len(args) = 2 /\ args[1] = args[2]) =>
        /\ res = TimeSet_union(<<args[1]>>)
        /\ res = IF is_empty(args[1]) THEN <<>> ELSE <<args[1]>>

\* C9 witness: union(x, x) computed for a point x.
C9_Witness ==
    /\ op = "union"
    /\ Len(args) = 2
    /\ args[1] = args[2]
    /\ args[1].kind = "POINT"
    /\ res = <<args[1]>>

\* C10: interval containment is a preorder: a.contains(a), and a.contains(b)
\* with b.contains(c) implies a.contains(c).
C10_ContainsPreorder ==
    op = "contains" =>
        /\ args[1] = args[2] => res
        /\ (res /\ contains_timeinterval(args[2], args[3]))
                => contains_timeinterval(args[1], args[3])

\* C10 witness: a.contains(b) holds for different a, b, and b contains a
\* third, non-empty interval c with the same end as a and b.
C10_Witness ==
    /\ op = "contains"
    /\ res
    /\ args[1] # args[2]
    /\ args[2] # args[3]
    /\ is_nonempty(args[3])
    /\ contains_timeinterval(args[2], args[3])
    /\ args[1].end = args[2].end
    /\ args[2].end = args[3].end
    /\ args[1].end # None

\* C11: for every valid interval whose shape is neither Empty nor Timeline,
\* from_boundaries fed with the interval's own start, end, is_start_included
\* and is_end_included returns, without raising, an interval of the same shape
\* and bounds.
C11_RoundTrip ==
    (op = "round_trip" /\ args[1].kind \notin {"EMPTY", "TIMELINE"})
        => (~Raises(res) /\ res = args[1])

C11_Witness ==
    /\ op = "round_trip"
    /\ args[1].kind = "CLOSED_OPEN"
    /\ res = args[1]

\* C13: a & b never raises and contains exactly the instants that both a and b
\* contain; closed(s, e) & rightopen(m) with s < m < e is the OpenClosed
\* interval from m (excluded) to e (included).
C13_AndExact ==
    op = "and" =>
        /\ ~Raises(res)
        /\ \A t \in Moments :
                contains_timestamp(res, t)
                    <=> (contains_timestamp(args[1], t) /\ contains_timestamp(args[2], t))
        /\ \A s, m, e \in Timestamps :
                (s < m /\ m < e /\ args[1] = closed(s, e) /\ args[2] = rightopen(m))
                    => res = [kind |-> "OPEN_CLOSED", start |-> m, end |-> e]

C13_Witness ==
    /\ op = "and"
    /\ args[1].kind = "CLOSED"
    /\ args[2].kind = "RIGHT_OPEN"
    /\ args[1].start < args[2].start
    /\ args[2].start < args[1].end
    /\ res.kind = "OPEN_CLOSED"

\* C15: for non-empty a and b with a.end equal to b.start, a.is_left_of(b) is
\* true iff at least one of the two adjoining bounds is excluded, and
\* a.is_left_of_disconnectedly(b) is true iff both are; so point(d) is neither
\* left of nor disconnectedly left of point(d), openclosed(d, d2) is not
\* disconnectedly left of openclosed(d2, d3), and closedopen(d, d2) is
\* disconnectedly left of openclosed(d2, d3).
C15_TiedBoundaryRule ==
    LET a == args[1]
        b == args[2]
        tied == /\ is_nonempty(a) /\ is_nonempty(b)
                /\ a.end # None /\ a.end = b.start
        end_excluded == ~contains_timestamp(a, a.end)
        start_excluded == ~contains_timestamp(b, b.start)
    IN  /\ (op = "is_left_of" /\ tied)
            => (res <=> (end_excluded \/ start_excluded))
        /\ (op = "is_left_of_disconnectedly" /\ tied)
            => (res <=> (end_excluded /\ start_excluded))
        /\ (op \in {"is_left_of", "is_left_of_disconnectedly"}
                /\ a.kind = "POINT" /\ b = a)
            => res = FALSE
        /\ (op = "is_left_of_disconnectedly"
                /\ a.kind = "OPEN_CLOSED" /\ b.kind = "OPEN_CLOSED" /\ a.end = b.start)
            => res = FALSE
        /\ (op = "is_left_of_disconnectedly"
                /\ a.kind = "CLOSED_OPEN" /\ b.kind = "OPEN_CLOSED" /\ a.end = b.start)
            => res = TRUE

C15_Witness ==
    /\ op = "is_left_of"
    /\ args[1].kind = "OPEN_CLOSED"
    /\ args[2].kind = "OPEN_CLOSED"
    /\ args[1].end = args[2].start
    /\ res = TRUE

\* C17, as stated: to_the_left and to_the_right return the timeline for an
\* Empty interval, Empty for an interval unbounded on that side, and otherwise
\* an open ray at the interval's bound, whatever the inclusion of that bound.
C17_RayAlwaysOpen ==
    LET i == args[1]
    IN  /\ op = "to_the_left" =>
                res = IF is_empty(i) THEN timeline
                      ELSE IF i.start = None THEN empty
                      ELSE [kind |-> "LEFT_OPEN", start |-> None, end |-> i.start]
        /\ op = "to_the_right" =>
                res = IF is_empty(i) THEN timeline
                      ELSE IF i.end = None THEN empty
                      ELSE [kind |-> "RIGHT_OPEN", start |-> i.end, end |-> None]

\* C17, amended: to_the_left and to_the_right return the timeline for an Empty
\* interval, Empty for an interval unbounded on that side, and otherwise the
\* ray at the interval's bound that holds the bound exactly when the interval
\* does not: an open ray when the bound is included, a closed ray when it is
\* excluded.
C17_RayExcludesWhatIntervalIncludes ==
    LET i == args[1]
    IN  /\ op = "to_the_left" =>
                res = IF is_empty(i) THEN timeline
                      ELSE IF i.start = None THEN empty
                      ELSE IF contains_timestamp(i, i.start)
                      THEN [kind |-> "LEFT_OPEN", start |-> None, end |-> i.start]
                      ELSE [kind |-> "LEFT_CLOSED", start |-> None, end |-> i.start]
        /\ op = "to_the_right" =>
                res = IF is_empty(i) THEN timeline
                      ELSE IF i.end = None THEN empty
                      ELSE IF contains_timestamp(i, i.end)
                      THEN [kind |-> "RIGHT_OPEN", start |-> i.end, end |-> None]
                      ELSE [kind |-> "RIGHT_CLOSED", start |-> i.end, end |-> None]

C17_Witness ==
    /\ op = "to_the_left"
    /\ args[1].kind = "OPEN_CLOSED"
    /\ res.kind = "LEFT_CLOSED"

\* C20: for non-empty a and b, a.touches(b) is true iff every instant of
\* minimal_cover(a, b) is an instant of a or of b; touches is false whenever
\* either interval is Empty.
C20_TouchesIffConnected ==
    LET a == args[1]
        b == args[2]
        cover == minimal_cover(<<a, b>>)
    IN  op = "touches" =>
            IF is_empty(a) \/ is_empty(b) THEN res = FALSE
            ELSE res <=> \A t \in Moments :
                            contains_timestamp(cover, t)
                                => (contains_timestamp(a, t) \/ contains_timestamp(b, t))

C20_Witness ==
    /\ op = "touches"
    /\ args[1].kind = "CLOSED_OPEN"
    /\ args[2].kind = "CLOSED"
    /\ args[1].end = args[2].start
    /\ res = TRUE

\* C14: for every canonical TimeSet s, s.complement() returns without raising
\* a TimeSet that contains exactly the instants s does not contain; the
\* complement of the empty TimeSet is the one-component timeline and the
\* complement of {leftclosed(d)} is {rightopen(d)}.
C14_ComplementExact ==
    op = "complement" =>
        /\ res # TimeSetError
        /\ \A t \in Moments :
                TimeSet_contains_timestamp(res, t)
                    <=> ~TimeSet_contains_timestamp(args[1], t)
        /\ args[1] = <<>>
                => res = <<[kind |-> "TIMELINE", start |-> None, end |-> None]>>
        /\ \A d \in Timestamps :
                args[1] = <<[kind |-> "LEFT_CLOSED", start |-> None, end |-> d]>>
                    => res = <<[kind |-> "RIGHT_OPEN", start |-> d, end |-> None]>>

C14_Witness ==
    /\ op = "complement"
    /\ Len(args[1]) = 1
    /\ args[1][1].kind = "LEFT_CLOSED"
    /\ Len(res) = 1
    /\ res[1].kind = "RIGHT_OPEN"
    /\ res[1].start = args[1][1].end

\* C18: every TimeInterval that a constructor or an operation returns obeys
\* the bound rule of its shape: Empty and Timeline have no bounds; Point has
\* both bounds, equal; Open, Closed, ClosedOpen and OpenClosed have both
\* bounds, the start strictly before the end; a right ray has only a start
\* and a left ray only an end.  A direct construction that breaks the rule
\* raises ValueError.
C18_ShapeInvariant ==
    LET rule(kind, start, end) ==
            CASE kind \in {"EMPTY", "TIMELINE"} -> start = None /\ end = None
              [] kind = "POINT" -> start # None /\ end # None /\ start = end
              [] kind \in {"OPEN", "CLOSED", "CLOSED_OPEN", "OPEN_CLOSED"} ->
                    start # None /\ end # None /\ start < end
              [] kind \in {"RIGHT_OPEN", "RIGHT_CLOSED"} -> start # None /\ end = None
              [] kind \in {"LEFT_OPEN", "LEFT_CLOSED"} -> start = None /\ end # None
              [] OTHER -> FALSE
    IN  /\ op \in {"construct", "construct_shape", "construct_from_boundaries",
                   "round_trip", "and", "and_and", "minimal_cover", "to_the_left",
                   "to_the_right", "between", "closure", "interior"}
            => (Raises(res) \/ rule(res.kind, res.start, res.end))
        /\ op = "construct"
            => (Raises(res) <=> ~rule(args[1], args[2], args[3]))

C18_Witness ==
    /\ op = "construct"
    /\ args[1] = "CLOSED"
    /\ args[2] # None
    /\ args[2] = args[3]
    /\ Raises(res)

\* C12: every TimeSet returned by the constructor, empty, timeline, union, |,
\* &, -, intersection_with_interval, intersection_with_timeset, complement,
\* closure or interior has only non-empty components, and each component is
\* disconnectedly to the left of the next one.
C12_CanonicalForm ==
    (/\ op \in {"set_new", "set_new_interval", "set_empty", "set_timeline",
                 "set_or", "set_or_interval", "set_and", "set_and_interval",
                 "set_sub", "set_sub_interval", "complement", "set_closure",
                 "set_interior"}
     /\ res # TimeSetError) =>
        /\ \A k \in DOMAIN res : res[k].kind # "EMPTY"
        /\ \A k \in 1..(Len(res) - 1) : is_left_of_disconnectedly(res[k], res[k + 1])

C12_Witness ==
    /\ op = "set_or"
    /\ Len(args[1]) = 2
    /\ Len(args[2]) = 1
    /\ res # TimeSetError
    /\ Len(res) = 1

\* C16: the pieces collected by intersection_with_timeset (two canonical
\* TimeSets) and by intersection_with_interval (a canonical TimeSet and a
\* valid interval) are already in canonical form: non-empty, in order, no two
\* neighbours overlapping or touching; so neither call raises.
C16_WalkIsCanonical ==
    LET canonical(pieces) ==
            /\ \A k \in DOMAIN pieces : is_nonempty(pieces[k])
            /\ \A k \in 1..(Len(pieces) - 1) :
                    /\ is_left_of(pieces[k], pieces[k + 1])
                    /\ ~touches(pieces[k], pieces[k + 1])
    IN  /\ op = "set_and" =>
            /\ res # TimeSetError
            /\ canonical(intersection_walk(args[1], args[2], 1, 1, <<>>))
        /\ op = "set_and_interval" =>
            /\ res # TimeSetError
            /\ canonical(intersection_with_interval_walk(args[1], args[2], 1, <<>>))

C16_Witness ==
    /\ op = "set_and"
    /\ Len(args[1]) = 2
    /\ Len(args[2]) = 2
    /\ res # TimeSetError
    /\ Len(res) = 3

\* C19: the intersection of two canonical TimeSets a and b contains exactly the
\* instants that both a and b contain.
C19_IntersectionExact ==
    op = "set_and" =>
        /\ res # TimeSetError
        /\ \A t \in Moments :
                TimeSet_contains_timestamp(res, t)
                    <=> (/\ TimeSet_contains_timestamp(args[1], t)
                         /\ TimeSet_contains_timestamp(args[2], t))

C19_Witness ==
    /\ op = "set_and"
    /\ Len(args[1]) = 1
    /\ Len(args[2]) = 2
    /\ args[1][1].end = args[2][2].end
    /\ res # TimeSetError
    /\ Len(res) = 2

\* C21: a.contains(b) is true iff a & b equals b, for valid intervals a and b
\* of any shape; so Empty is contained in every interval, and an interval
\* unbounded on one side is contained only in intervals unbounded on that side.
C21_ContainsIffAndIsOperand ==
    LET a == args[1]
        b == args[2]
    IN  op = "contains_and" =>
            /\ res[1] <=> (res[2] = b)
            /\ b.kind = "EMPTY" => res[1]
            /\ (b.kind # "EMPTY" /\ b.start = None /\ res[1]) => a.start = None
            /\ (b.kind # "EMPTY" /\ b.end = None /\ res[1]) => a.end = None

C21_Witness ==
    /\ op = "contains_and"
    /\ args[1].kind = "CLOSED_OPEN"
    /\ args[2].kind = "OPEN"
    /\ args[1].start = args[2].start
    /\ args[1].end = args[2].end
    /\ res[1]
    /\ res[2] = args[2]

\* C22: minimal_cover never raises; its result contains every input, and every
\* valid interval that contains all the inputs contains the result; when no
\* input is non-empty the result is Empty.
C22_MinimalCoverIsLeast ==
    op = "minimal_cover" =>
        /\ ~Raises(res)
        /\ \A k \in DOMAIN args : contains_timeinterval(res, args[k])
        /\ \A c \in Intervals :
                (\A k \in DOMAIN args : contains_timeinterval(c, args[k]))
                    => contains_timeinterval(c, res)
        /\ (\A k \in DOMAIN args : args[k].kind = "EMPTY") => res.kind = "EMPTY"

C22_Witness ==
    /\ op = "minimal_cover"
    /\ args[1].kind = "OPEN"
    /\ args[2].kind = "POINT"
    /\ args[2].start = args[1].start
    /\ args[3].kind = "EMPTY"
    /\ res.kind = "CLOSED_OPEN"

\* C23: for canonical TimeSets a and b, a.contains_timeset(b) is true iff
\* every component of b is contained in some component of a.
C23_ContainsTimesetWalk ==
    op = "set_contains" =>
        (res <=> \A j \in DOMAIN args[2] :
                    \E i \in DOMAIN args[1] :
                        contains_timeinterval(args[1][i], args[2][j]))

C23_Witness ==
    /\ op = "set_contains"
    /\ Len(args[1]) = 2
    /\ Len(args[2]) = 3
    /\ res = TRUE

\* C28: for a canonical TimeSet s and a valid interval i (Empty and Timeline
\* included) or a canonical TimeSet o, s - i and s - o return without raising
\* a TimeSet that contains an instant iff s contains it and the subtrahend
\* does not; s - TimeInterval.empty() equals s.
C28_DifferenceExactAndTotal ==
    /\ op = "set_sub" =>
        /\ res # TimeSetError
        /\ \A t \in Moments :
                TimeSet_contains_timestamp(res, t)
                    <=> (/\ TimeSet_contains_timestamp(args[1], t)
                         /\ ~TimeSet_contains_timestamp(args[2], t))
    /\ op = "set_sub_interval" =>
        /\ res # TimeSetError
        /\ \A t \in Moments :
                TimeSet_contains_timestamp(res, t)
                    <=> (/\ TimeSet_contains_timestamp(args[1], t)
                         /\ ~contains_timestamp(args[2], t))
        /\ args[2].kind = "EMPTY" => res = args[1]

\* C29: for a canonical TimeSet s (the empty one included) and a valid
\* interval i (Empty included), s.contains(i) equals
\* s.contains(TimeSet.union(i)); the Empty interval is contained in every
\* TimeSet.
C29_ContainsIntervalAsSet ==
    op = "set_contains_interval" =>
        /\ res[1] = res[2]
        /\ args[2].kind = "EMPTY" => res[1] = TRUE

\* C30: for every canonical TimeSet s, whatever the inclusion of its bounds,
\* with point components and with components separated by one excluded
\* instant, s.complement().complement() equals s.
C30_ComplementInvolution ==
    op = "complement_complement" => res = args[1]

C30_Witness ==
    /\ op = "complement_complement"
    /\ Len(args[1]) = 3
    /\ args[1][1].kind = "POINT"
    /\ args[1][2].kind = "OPEN"
    /\ args[1][3].kind = "RIGHT_OPEN"
    /\ args[1][2].end = args[1][3].start
    /\ res = args[1]

\* C27: TimeSet.union does not depend on the order of its arguments: for every
\* list of valid intervals and every permutation of it, the two calls return
\* equal TimeSets or both raise.
C27_UnionOrderIndependent ==
    op = "union_permuted" => res[1] = res[2]

\* C24: when load_from_yaml returns normally, slug_to_activity has one entry
\* per key of 'activities', the nodes of the graph are those activities, its
\* edges are parent -> child for exactly the declared parents, the graph is
\* acyclic, and nothing of an earlier load remains.
C24_LoadedStateIsTheDocument ==
    (op = "load_from_yaml" /\ res.raised = "") =>
        LET items == args[1].activities
            graph == res.self.activities_graph
            keys == {items[k].slug : k \in DOMAIN items}
            declared ==
                UNION {{<<items[k].parents[n], items[k].slug>> :
                            n \in DOMAIN items[k].parents} : k \in DOMAIN items}
            longest == Cardinality(graph.nodes) + 1
        IN  /\ res.self.slug_to_activity = keys
            /\ graph.nodes = keys
            /\ graph.edges = declared
            /\ ~\E walk \in [1..longest -> graph.nodes] :
                    \E last \in 2..longest :
                        /\ walk[last] = walk[1]
                        /\ \A k \in 1..(last - 1) :
                                <<walk[k], walk[k + 1]>> \in graph.edges

C24_Witness ==
    /\ op = "load_from_yaml"
    /\ res.raised = ""
    /\ Len(args[1].activities) = 2
    /\ res.self.activities_graph.edges # {}

\* C25: after every call of load_from_yaml, whether it returned or raised,
\* activities_graph holds no cycle and no self-loop: no walk along its edges
\* comes back to the node it started from.
C25_GraphAlwaysAcyclic ==
    LET graph == res.self.activities_graph
        longest == Cardinality(graph.nodes) + 1
    IN  \A first \in graph.nodes :
            ~\E walk \in [1..longest -> graph.nodes] :
                /\ walk[1] = first
                /\ \E last \in 2..longest :
                    /\ walk[last] = first
                    /\ \A k \in 1..(last - 1) :
                            <<walk[k], walk[k + 1]>> \in graph.edges

\* C26: a call of load_from_yaml that raises ValueError leaves
\* activities_graph and slug_to_activity as they were before the call.
C26_FailedLoadIsAtomic ==
    [][res'.raised = "ValueError" => res'.self = res.self]_vars

====
